---- MODULE Spec2Model ----
(***************************************************************************)
(* Model of mess/integrals.py: the aggregation layer (integrate_dense,     *)
(* nuclear_basis, gen_ijkl, eri_basis_sparse, eri_basis_sparse_batched,    *)
(* eri_basis) and the index algebra of the primitive kernels               *)
(* (overlap_axis, _kinetic_primitives, g_term).                            *)
(*                                                                         *)
(* Array indices are 0-based as in the source; TLA+ sequences are 1-based, *)
(* so position m of a Python list is element m+1 of the sequence.          *)
(* Real-valued kernels are either inputs drawn from small integer tables   *)
(* (aggregation layer) or computed over the integers after clearing the    *)
(* denominators (overlap_axis).                                            *)
(***************************************************************************)
EXTENDS Integers, Sequences, FiniteSets, TLC

VARIABLES
    pc,             \* which call is running / has returned
    num_orbitals,   \* basis.num_orbitals
    ijkl,           \* quadruples yielded so far by gen_ijkl (list(gen_ijkl(n)))
    line,           \* eri_basis: the next scatter assignment (1..8 for lines 327..334)
    eri_dense,      \* eri_basis: the dense tensor being filled
    writes,         \* history: per entry, the unique-ERI positions written to it
    orbital_prims,  \* [o.num_primitives for o in basis.orbitals]
    batch_size,     \* eri_basis_sparse_batched: its batch_size argument
    consumed,       \* number of quadruples `batched` has pulled from gen_ijkl
    batched_eris,   \* eri_basis_sparse_batched: the list of per-batch segment sums
    eris_batched,   \* value returned by eri_basis_sparse_batched
    eris_sparse,    \* value returned by eri_basis_sparse
    coefficients,   \* basis.coefficients, by primitive position
    kernel,         \* the primitive kernel's values, drawn per basis
    structure,      \* basis.structure.atomic_number, one per nucleus
    out,            \* the array an aggregation call returned
    prim_a,         \* primitive a of a kernel call: [lmn]
    prim_b,         \* primitive b of a kernel call: [lmn]
    shift,          \* [pa, pb]: p.center - a.center and p.center - b.center
    junk,           \* what binom returns outside its domain (n < 0)
    ret             \* what a primitive kernel call computed

genVars == <<ijkl, line, eri_dense, writes>>
batchVars == <<orbital_prims, batch_size, consumed, batched_eris,
               eris_batched, eris_sparse>>
denseVars == <<coefficients, kernel, structure, out>>
primVars == <<prim_a, prim_b, shift, junk, ret>>
vars == <<pc, num_orbitals, genVars, batchVars, denseVars, primVars>>

(***************************************************************************)
(* Bounds of the model.                                                    *)
(***************************************************************************)
MaxN == 4           \* largest num_orbitals of SpecGen
MaxOrbitals == 2    \* largest num_orbitals of SpecBatch
MaxOrbPrims == 2    \* largest num_primitives of one orbital in SpecBatch
MaxBatch == 3       \* largest small batch_size of SpecBatch
MaxPrims == 3       \* largest basis.num_primitives of SpecDense
MaxNucPrims == 2    \* largest basis.num_primitives of SpecNuclear
MaxAtoms == 2       \* largest number of nuclei of SpecNuclear

\* The variables of the calls a specification does not make.
IdleDense ==
    /\ coefficients = <<>>
    /\ kernel = <<>>
    /\ structure = <<>>
    /\ out = <<>>

IdlePrim ==
    /\ prim_a = <<>>
    /\ prim_b = <<>>
    /\ shift = <<>>
    /\ junk = 0
    /\ ret = <<>>

(***************************************************************************)
(* Helpers.                                                                *)
(***************************************************************************)
\* Concatenation of the sequences f[lo], f[lo+1], ..., f[hi]: the order in
\* which a Python for-loop over range(lo, hi+1) yields / extends a list.
RECURSIVE Flat(_, _, _)
Flat(f, lo, hi) == IF lo > hi THEN <<>> ELSE f[lo] \o Flat(f, lo + 1, hi)

Range(s) == {s[x] : x \in DOMAIN s}

(***************************************************************************)
(* gen_ijkl (integrals.py:289-296).                                        *)
(***************************************************************************)
lmax_kdx(idx, jdx, kdx) == kdx

\* line 294: lmax = jdx if idx == kdx else kdx
lmax(idx, jdx, kdx) == IF idx = kdx THEN jdx ELSE kdx

\* lines 295-296: for ldx in range(lmax + 1): yield idx, jdx, kdx, ldx
gen_ldx(idx, jdx, kdx) ==
    [x \in 1..(lmax(idx, jdx, kdx) + 1) |-> <<idx, jdx, kdx, x - 1>>]

\* line 293: for kdx in range(idx + 1)
gen_kdx(idx, jdx) == Flat([kdx \in 0..idx |-> gen_ldx(idx, jdx, kdx)], 0, idx)

\* line 292: for jdx in range(idx + 1)
gen_jdx(idx) == Flat([jdx \in 0..idx |-> gen_kdx(idx, jdx)], 0, idx)

\* line 291: for idx in range(n); the whole sequence the generator yields
gen_ijkl(n) == Flat([idx \in 0..(n - 1) |-> gen_jdx(idx)], 0, n - 1)

(***************************************************************************)
(* eri_basis (integrals.py:321-335).                                       *)
(***************************************************************************)
Quads(n) == (0..(n - 1)) \X (0..(n - 1)) \X (0..(n - 1)) \X (0..(n - 1))

\* The index tuple that scatter line `ln` (1..8 for source lines 327..334)
\* builds from one row (ii, jj, kk, ll) of the gen_ijkl index arrays.
ScatterIndex_no_pair_swap(ln, q) ==
    LET i == q[1]  j == q[2]  k == q[3]  l == q[4] IN
    CASE ln = 1 -> <<i, j, k, l>>
      [] ln = 2 -> <<i, j, l, k>>
      [] ln = 3 -> <<j, i, k, l>>
      [] ln = 4 -> <<j, i, l, k>>
      [] ln = 5 -> <<i, j, k, l>>
      [] ln = 6 -> <<i, j, l, k>>
      [] ln = 7 -> <<j, i, k, l>>
      [] ln = 8 -> <<j, i, l, k>>

ScatterIndex(ln, q) ==
    LET i == q[1]  j == q[2]  k == q[3]  l == q[4] IN
    CASE ln = 1 -> <<i, j, k, l>>     \* 327
      [] ln = 2 -> <<i, j, l, k>>     \* 328
      [] ln = 3 -> <<j, i, k, l>>     \* 329
      [] ln = 4 -> <<j, i, l, k>>     \* 330
      [] ln = 5 -> <<k, l, i, j>>     \* 331
      [] ln = 6 -> <<k, l, j, i>>     \* 332
      [] ln = 7 -> <<l, k, i, j>>     \* 333
      [] ln = 8 -> <<l, k, j, i>>     \* 334

\* x.at[index arrays].set(values): entry e takes values[m] for a row m whose
\* index tuple is e (the last such row, as XLA applies updates in order; the
\* rows of one gen_ijkl scatter are pairwise distinct), and keeps x[e] otherwise.
AtSet(x, ln, rows, values) ==
    [e \in DOMAIN x |->
        LET hit == {m \in DOMAIN rows : ScatterIndex(ln, rows[m]) = e} IN
        IF hit = {} THEN x[e]
        ELSE values[CHOOSE m \in hit : \A m2 \in hit : m2 <= m]]

\* unique_eris as eri_basis receives it from eri_basis_sparse_batched: one value
\* per gen_ijkl row.  The value of row m is kept symbolic, as the position m.
unique_eris(n) == [m \in 1..Len(gen_ijkl(n)) |-> m]

InitGen ==
    /\ pc = "gen_ijkl"
    /\ num_orbitals \in 1..MaxN
    /\ ijkl = <<>>
    /\ line = 0
    /\ eri_dense = <<>>
    /\ writes = <<>>
    /\ orbital_prims = <<>>
    /\ batch_size = 0
    /\ consumed = 0
    /\ batched_eris = <<>>
    /\ eris_batched = <<>>
    /\ eris_sparse = <<>>
    /\ IdleDense
    /\ IdlePrim

\* One `yield` of gen_ijkl inside list(gen_ijkl(b.num_orbitals)) (line 323).
GenYield ==
    /\ pc = "gen_ijkl"
    /\ Len(ijkl) < Len(gen_ijkl(num_orbitals))
    /\ ijkl' = Append(ijkl, gen_ijkl(num_orbitals)[Len(ijkl) + 1])
    /\ UNCHANGED <<pc, num_orbitals, line, eri_dense, writes, batchVars, denseVars, primVars>>

\* The generator is exhausted; line 326 allocates the tensor with
\* jnp.empty_like.  An entry that was never set is kept as 0, which no
\* unique-ERI position equals; `writes` records what was written where.
EmptyLike ==
    /\ pc = "gen_ijkl"
    /\ Len(ijkl) = Len(gen_ijkl(num_orbitals))
    /\ eri_dense' = [e \in Quads(num_orbitals) |-> 0]
    /\ writes' = [e \in Quads(num_orbitals) |-> {}]
    /\ pc' = "scatter"
    /\ line' = 1
    /\ UNCHANGED <<num_orbitals, ijkl, batchVars, denseVars, primVars>>

\* One of the eight scatter assignments, lines 327-334.
Scatter ==
    /\ pc = "scatter"
    /\ eri_dense' = AtSet(eri_dense, line, ijkl, unique_eris(num_orbitals))
    /\ writes' = [e \in DOMAIN writes |->
                    writes[e] \cup {unique_eris(num_orbitals)[m] :
                        m \in {m \in DOMAIN ijkl : ScatterIndex(line, ijkl[m]) = e}}]
    /\ pc' = IF line = 8 THEN "returned" ELSE "scatter"
    /\ line' = line + 1
    /\ UNCHANGED <<num_orbitals, ijkl, batchVars, denseVars, primVars>>

NextGen == GenYield \/ EmptyLike \/ Scatter

SpecGen == InitGen /\ [][NextGen]_vars

(***************************************************************************)
(* eri_basis_sparse (integrals.py:299-318) and eri_basis_sparse_batched    *)
(* (integrals.py:338-363).                                                 *)
(*                                                                         *)
(* A primitive ERI times its coefficient product is kept symbolic: the     *)
(* term of primitive positions (p, q, r, s) is the tuple <<p, q, r, s>>.   *)
(* A sum of terms is the bag of its terms, a function from each term to    *)
(* the number of times it was added.                                       *)
(***************************************************************************)
RECURSIVE SumSeq(_)
SumSeq(s) == IF s = <<>> THEN 0 ELSE Head(s) + SumSeq(Tail(s))

\* offset = np.insert(np.cumsum([o.num_primitives ...]), 0, 0), lines 303-304
\* and 340-341; offset[o] for o in 0..num_orbitals.
offset(prims) == [o \in 0..Len(prims) |-> SumSeq(SubSeq(prims, 1, o))]

\* list(cartesian_product(*mesh)) with mesh = [range(offset[i], offset[i+1])
\* for i in idx], lines 307-308 and 347-348: last index fastest.
cartesian_product(prims, idx) ==
    LET lo(x) == offset(prims)[idx[x]]
        c(x) == prims[idx[x] + 1]
    IN  [t \in 1..(c(1) * c(2) * c(3) * c(4)) |->
            LET z == t - 1 IN
            << lo(1) + (z \div (c(2) * c(3) * c(4))),
               lo(2) + ((z \div (c(3) * c(4))) % c(2)),
               lo(3) + ((z \div c(4)) % c(3)),
               lo(4) + (z % c(4)) >>]

\* indices after the enumerate loop over the quadruples qs, lines 306-308.
indices(prims, qs) ==
    Flat([m \in 1..Len(qs) |-> cartesian_product(prims, qs[m])], 1, Len(qs))

\* batch after the loop, line 309: count repeated once per tuple just added,
\* count restarting at 0 with every call of enumerate.
batch_ids(prims, qs) ==
    Flat([m \in 1..Len(qs) |->
            [t \in 1..Len(cartesian_product(prims, qs[m])) |-> m - 1]],
         1, Len(qs))

\* num_segments = count + 1 after enumerate over qs, lines 318 and 361.
num_segments_count(qs) == Len(qs) - 1

num_segments(qs) == Len(qs)

\* jax.ops.segment_sum(data, segment_ids, num_segments): the bag of data[t]
\* over the t with segment_ids[t] = m, for m in 0..num_segments-1 (an id
\* outside that range is dropped).
segment_sum(data, segment_ids, num) ==
    [m \in 1..num |->
        LET T == {t \in DOMAIN data : segment_ids[t] = m - 1}
            E == {data[t] : t \in T}
        IN  [e \in E |-> Cardinality({t \in T : data[t] = e})]]

\* Lines 311-318 / 351-361 for the quadruples qs of one call or one batch:
\* eris = cijkl * vmap_eri_primitives(*pijkl), segment-summed by batch.
eris_of(prims, qs) ==
    segment_sum(indices(prims, qs), batch_ids(prims, qs), num_segments(qs))

\* eri_basis_sparse(b), one batch over the whole of gen_ijkl.
eri_basis_sparse(n, prims) == eris_of(prims, gen_ijkl(n))

\* more_itertools.batched: the next batch holds the following batch_size
\* items of the generator, or as many as are left.
next_batch(n, size, done) ==
    LET g == gen_ijkl(n)
        last == IF done + size < Len(g) THEN done + size ELSE Len(g)
    IN  SubSeq(g, done + 1, last)

\* The batch sizes of the model: the small ones, and the one eri_basis passes.
BatchSizes == (1..MaxBatch) \cup {1024 * 1024}

InitBatch ==
    /\ pc = "eri_basis_sparse"
    /\ num_orbitals \in 1..MaxOrbitals
    /\ orbital_prims \in [1..num_orbitals -> 1..MaxOrbPrims]
    /\ batch_size \in BatchSizes
    /\ consumed = 0
    /\ batched_eris = <<>>
    /\ eris_batched = <<>>
    /\ eris_sparse = <<>>
    /\ ijkl = <<>>
    /\ line = 0
    /\ eri_dense = <<>>
    /\ writes = <<>>
    /\ IdleDense
    /\ IdlePrim

\* The call eri_basis_sparse(b).
EriBasisSparse ==
    /\ pc = "eri_basis_sparse"
    /\ eris_sparse' = eri_basis_sparse(num_orbitals, orbital_prims)
    /\ pc' = "eri_basis_sparse_batched"
    /\ UNCHANGED <<num_orbitals, genVars, orbital_prims, batch_size, consumed,
                   batched_eris, eris_batched, denseVars, primVars>>

\* One iteration of `for ijkl_batch in batched(gen_ijkl(...), batch_size)`,
\* lines 343-361.
BatchedLoop ==
    /\ pc = "eri_basis_sparse_batched"
    /\ consumed < Len(gen_ijkl(num_orbitals))
    /\ LET ijkl_batch == next_batch(num_orbitals, batch_size, consumed) IN
        /\ batched_eris' = Append(batched_eris, eris_of(orbital_prims, ijkl_batch))
        /\ consumed' = consumed + Len(ijkl_batch)
    /\ UNCHANGED <<pc, num_orbitals, genVars, orbital_prims, batch_size,
                   eris_batched, eris_sparse, denseVars, primVars>>

\* The generator is exhausted: return jnp.hstack(batched_eris), line 363.
BatchedReturn ==
    /\ pc = "eri_basis_sparse_batched"
    /\ consumed = Len(gen_ijkl(num_orbitals))
    /\ eris_batched' = Flat(batched_eris, 1, Len(batched_eris))
    /\ pc' = "returned"
    /\ UNCHANGED <<num_orbitals, genVars, orbital_prims, batch_size, consumed,
                   batched_eris, eris_sparse, denseVars, primVars>>

NextBatch == EriBasisSparse \/ BatchedLoop \/ BatchedReturn

SpecBatch == InitBatch /\ [][NextBatch]_vars

\* basis.orbital_index: the owning orbital of every flattened primitive
\* position, orbital o repeated once per primitive it holds.
orbital_index(prims) ==
    LET rep == Flat([o \in 1..Len(prims) |-> [x \in 1..prims[o] |-> o - 1]],
                    1, Len(prims))
    IN  [p \in 0..(Len(rep) - 1) |-> rep[p + 1]]

\* The primitive positions orbital o owns: those that basis.orbital_index
\* maps to o.
PrimsOf(prims, o) ==
    LET index == orbital_index(prims) IN {p \in DOMAIN index : index[p] = o}

\* The sum over the full primitive cross product of an orbital quadruple, each
\* term once.
CrossSum(prims, q) ==
    [e \in PrimsOf(prims, q[1]) \X PrimsOf(prims, q[2])
            \X PrimsOf(prims, q[3]) \X PrimsOf(prims, q[4]) |-> 1]

\* C3: when both calls have returned, eri_basis_sparse_batched gave the same
\* sequence as eri_basis_sparse, one value per gen_ijkl quadruple in gen_ijkl
\* order, the m-th being the sum over the full primitive cross product of the
\* m-th quadruple; and the batches held so far are always that sequence's
\* prefix.
C3_BatchedEqualsSparse ==
    /\ pc = "eri_basis_sparse_batched" =>
        LET sofar == Flat(batched_eris, 1, Len(batched_eris)) IN
        /\ Len(sofar) = consumed
        /\ sofar = SubSeq(eris_sparse, 1, consumed)
    /\ pc = "returned" =>
        /\ eris_batched = eris_sparse
        /\ Len(eris_batched) = Len(gen_ijkl(num_orbitals))
        /\ \A m \in DOMAIN eris_batched :
            eris_batched[m] = CrossSum(orbital_prims, gen_ijkl(num_orbitals)[m])

C3_Witness ==
    /\ pc = "returned"
    /\ num_orbitals = 2
    /\ orbital_prims = <<2, 1>>
    /\ batch_size = 2
    /\ Len(batched_eris) = 3
    /\ Len(eris_batched) = 6
    /\ DOMAIN eris_batched[4] = {2} \X {2} \X {0, 1} \X {0, 1}

(***************************************************************************)
(* The 8-fold permutation symmetry of the two-electron integral, stated    *)
(* from its three generators.                                              *)
(***************************************************************************)
SwapIJ(q) == <<q[2], q[1], q[3], q[4]>>
SwapKL(q) == <<q[1], q[2], q[4], q[3]>>
SwapPairs(q) == <<q[3], q[4], q[1], q[2]>>

SymClass(q) ==
    LET a == {q, SwapIJ(q)}
        b == a \cup {SwapKL(x) : x \in a}
    IN  b \cup {SwapPairs(x) : x \in b}

NumPairs(n) == (n * (n + 1)) \div 2

\* C2: once gen_ijkl(n) is exhausted, the yielded quadruples hold exactly one
\* representative of every symmetry class of (0..n-1)^4: no two of them are
\* equivalent, every quadruple is equivalent to one of them, and their number
\* is M(M+1)/2 with M = n(n+1)/2.  While it runs, no two yielded are equivalent.
C2_OneRepresentativePerClass ==
    /\ \A a, b \in DOMAIN ijkl : a # b => ijkl[b] \notin SymClass(ijkl[a])
    /\ pc # "gen_ijkl" =>
        /\ \A q \in Quads(num_orbitals) : \E m \in DOMAIN ijkl : q \in SymClass(ijkl[m])
        /\ Len(ijkl) = NumPairs(NumPairs(num_orbitals))

C2_Witness ==
    /\ pc = "scatter"
    /\ num_orbitals >= 3
    /\ Len(ijkl) = NumPairs(NumPairs(num_orbitals))
    /\ \E m \in DOMAIN ijkl : ijkl[m] = <<2, 1, 2, 1>>
    /\ \E m \in DOMAIN ijkl : ijkl[m] = <<2, 0, 1, 1>>

\* C1: every write to one entry of the dense tensor carries the same unique
\* ERI value, and when eri_basis returns every one of the n^4 entries has been
\* written by at least one of the eight scatter assignments and
\* G[i,j,k,l] = G[j,i,k,l] = G[i,j,l,k] = G[k,l,i,j].
C1_DenseTensorSymmetric ==
    /\ pc = "scatter" => \A e \in DOMAIN writes : Cardinality(writes[e]) <= 1
    /\ pc = "returned" =>
        \A e \in Quads(num_orbitals) :
            /\ writes[e] = {eri_dense[e]}
            /\ eri_dense[e] \in Range(unique_eris(num_orbitals))
            /\ eri_dense[e] = eri_dense[SwapIJ(e)]
            /\ eri_dense[e] = eri_dense[SwapKL(e)]
            /\ eri_dense[e] = eri_dense[SwapPairs(e)]

C1_Witness ==
    /\ pc = "returned"
    /\ num_orbitals >= 2
    /\ eri_dense[<<0, 1, 1, 1>>] = eri_dense[<<1, 1, 1, 0>>]
    /\ eri_dense[<<0, 1, 1, 1>>] # eri_dense[<<0, 1, 0, 1>>]
    /\ \A e \in Quads(num_orbitals) : writes[e] # {}

(***************************************************************************)
(* integrate_dense (integrals.py:49-59), overlap_basis, kinetic_basis and  *)
(* nuclear_basis (integrals.py:198-206).                                   *)
(*                                                                         *)
(* A 2-d array is a function on (0..R-1) \X (0..C-1).  The value a         *)
(* primitive kernel returns for a pair of primitive positions is an input: *)
(* kernel.base gives it per unordered pair, and kernel.skew is what the    *)
(* kernel adds when its first argument is the later primitive, so that     *)
(* skew = 1 is a kernel with K(a, b) # K(b, a).  Only the pairs basis_iter *)
(* yields are ever handed to the kernel.                                   *)
(***************************************************************************)
RECURSIVE SumOver(_, _)
SumOver(S, f) ==
    IF S = {} THEN 0
    ELSE LET x == CHOOSE x \in S : TRUE IN f[x] + SumOver(S \ {x}, f)

Coefficients == {1, 2}
KernelValues == {0, 1}
AtomicNumbers == {1, 2}

UnorderedPairs(P) == {e \in (0..(P - 1)) \X (0..(P - 1)) : e[1] <= e[2]}

\* basis_iter(basis): the index pairs (ii, jj) of every unordered pair of
\* primitive positions, the diagonal included, each once (the upper triangle,
\* lhs position <= rhs position).
basis_iter(P) == {e \in (0..(P - 1)) \X (0..(P - 1)) : e[1] <= e[2]}

\* The primitive kernel of the model applied to primitive positions a, b.
primitive_op(k, a, b) ==
    IF a <= b THEN k.base[<<a, b>>] ELSE k.base[<<b, a>>] + k.skew

\* The kernel as the function vmap(primitive_op) applies to a pair.
kernel_table(k, P) ==
    [e \in (0..(P - 1)) \X (0..(P - 1)) |-> primitive_op(k, e[1], e[2])]

transpose(M) == [e \in {<<x[2], x[1]>> : x \in DOMAIN M} |-> M[<<e[2], e[1]>>]]

symmetrize_no_transpose(A) == A

symmetrize_keep_diag(A) == [e \in DOMAIN A |-> A[e] + A[<<e[2], e[1]>>]]

\* line 55: A + A.T - jnp.diag(jnp.diag(A))
symmetrize(A) ==
    [e \in DOMAIN A |->
        A[e] + A[<<e[2], e[1]>>] - (IF e[1] = e[2] THEN A[e] ELSE 0)]

\* segment_sum(M, index, num_segments=num) with index of shape (1, P): row p
\* of M is added to row index[p] of the result (lines 56-58).
segment_sum_rows(M, index, num) ==
    [e \in (0..(num - 1)) \X {x[2] : x \in DOMAIN M} |->
        SumOver({p \in DOMAIN index : index[p] = e[1]},
                [p \in DOMAIN index |-> M[<<p, e[2]>>]])]

\* lines 52-54: aij = cl * cr * vmap(primitive_op)(lhs, rhs), scattered into
\* jnp.zeros((P, P)) at [ii, jj].
scatter_aij(P, pairs, coefs, op) ==
    [e \in (0..(P - 1)) \X (0..(P - 1)) |->
        IF e \in pairs THEN coefs[e[1]] * coefs[e[2]] * op[e] ELSE 0]

\* lines 56-59: the segment sum along both axes.
reduce_to_orbitals(A, index, N) ==
    [shape |-> <<N, N>>,
     val |-> segment_sum_rows(transpose(segment_sum_rows(A, index, N)), index, N)]

\* integrate_dense(basis, primitive_op), lines 51-59; primitive_op is handed
\* over as the function from <<lhs, rhs>> to its value.
integrate_dense(prims, coefs, op) ==
    reduce_to_orbitals(
        symmetrize(scatter_aij(SumSeq(prims), basis_iter(SumSeq(prims)),
                               coefs, op)),
        orbital_index(prims), Len(prims))

\* _nuclear_primitives(a, b, c) for nucleus number c: the kernel's value for
\* the pair, shifted by the nucleus so that different nuclei give different
\* integrals.
nuclear_primitives(k, a, b, c) == primitive_op(k, a, b) + c

nuclear_op_no_charge(k, atomic_number, c, a, b) == nuclear_primitives(k, a, b, c)

\* op of nuclear_basis, lines 201-202.
nuclear_op(k, atomic_number, c, a, b) ==
    atomic_number[c] * nuclear_primitives(k, a, b, c)

\* nuclear_basis(basis), lines 199-206: vmap of n over the nuclei stacks the
\* results of n along a new leading axis.
nuclear_basis(prims, coefs, k, atomic_number) ==
    LET P == SumSeq(prims)
        n(c) == integrate_dense(prims, coefs,
                    [e \in (0..(P - 1)) \X (0..(P - 1)) |->
                        nuclear_op(k, atomic_number, c, e[1], e[2])])
    IN  [shape |-> <<Len(atomic_number)>> \o n(1).shape,
         val |-> [c \in 1..Len(atomic_number) |-> n(c).val]]

IdleGenBatch ==
    /\ ijkl = <<>>
    /\ line = 0
    /\ eri_dense = <<>>
    /\ writes = <<>>
    /\ batch_size = 0
    /\ consumed = 0
    /\ batched_eris = <<>>
    /\ eris_batched = <<>>
    /\ eris_sparse = <<>>

\* A basis of at most `most` primitives: every orbital holds at least one.
InitBasis(most) ==
    /\ num_orbitals \in 1..most
    /\ orbital_prims \in {f \in [1..num_orbitals -> 1..most] : SumSeq(f) <= most}
    /\ coefficients \in [0..(SumSeq(orbital_prims) - 1) -> Coefficients]

InitDense ==
    /\ pc = "call"
    /\ InitBasis(MaxPrims)
    /\ kernel \in [base : [UnorderedPairs(SumSeq(orbital_prims)) -> KernelValues],
                   skew : {0, 1}]
    /\ structure = <<>>
    /\ out = <<>>
    /\ IdleGenBatch
    /\ IdlePrim

\* overlap_basis(basis), lines 114-115.
OverlapBasis ==
    /\ pc = "call"
    /\ out' = integrate_dense(orbital_prims, coefficients,
                              kernel_table(kernel, SumSeq(orbital_prims)))
    /\ pc' = "overlap_basis"
    /\ UNCHANGED <<num_orbitals, genVars, batchVars, coefficients, kernel,
                   structure, primVars>>

\* kinetic_basis(b), lines 134-135.
KineticBasis ==
    /\ pc = "call"
    /\ out' = integrate_dense(orbital_prims, coefficients,
                              kernel_table(kernel, SumSeq(orbital_prims)))
    /\ pc' = "kinetic_basis"
    /\ UNCHANGED <<num_orbitals, genVars, batchVars, coefficients, kernel,
                   structure, primVars>>

NextDense == OverlapBasis \/ KineticBasis

SpecDense == InitDense /\ [][NextDense]_vars

\* The nuclear-attraction kernel is symmetric in its two primitives.
InitNuclear ==
    /\ pc = "call"
    /\ InitBasis(MaxNucPrims)
    /\ kernel \in [base : [UnorderedPairs(SumSeq(orbital_prims)) -> KernelValues],
                   skew : {0}]
    /\ \E atoms \in 1..MaxAtoms : structure \in [1..atoms -> AtomicNumbers]
    /\ out = <<>>
    /\ IdleGenBatch
    /\ IdlePrim

\* nuclear_basis(basis), lines 198-206.
NuclearBasis ==
    /\ pc = "call"
    /\ out' = nuclear_basis(orbital_prims, coefficients, kernel, structure)
    /\ pc' = "nuclear_basis"
    /\ UNCHANGED <<num_orbitals, genVars, batchVars, coefficients, kernel,
                   structure, primVars>>

NextNuclear == NuclearBasis

SpecNuclear == InitNuclear /\ [][NextNuclear]_vars

OrbitalPairs == (0..(num_orbitals - 1)) \X (0..(num_orbitals - 1))

\* The contracted integral of orbitals I, J for a kernel K: the sum over every
\* primitive p of I and q of J of c_p * c_q * K(p, q).
Contracted(K, I, J) ==
    LET S == PrimsOf(orbital_prims, I) \X PrimsOf(orbital_prims, J) IN
    SumOver(S, [e \in S |-> coefficients[e[1]] * coefficients[e[2]] * K[e]])

\* C5: the matrix overlap_basis or kinetic_basis returns is symmetric,
\* out[I,J] = out[J,I], whatever the primitive kernel, one with
\* K(a,b) # K(b,a) included.
C5_DenseSymmetric ==
    pc \in {"overlap_basis", "kinetic_basis"} =>
        /\ out.shape = <<num_orbitals, num_orbitals>>
        /\ \A e \in OrbitalPairs : out.val[e] = out.val[<<e[2], e[1]>>]

C5_Witness ==
    /\ pc = "kinetic_basis"
    /\ num_orbitals = 2
    /\ orbital_prims = <<2, 1>>
    /\ kernel.skew = 1
    /\ out.val[<<0, 1>>] = out.val[<<1, 0>>]
    /\ out.val[<<0, 1>>] > 0
    /\ out.val[<<1, 0>>] #
        Contracted(kernel_table(kernel, 3), 1, 0)

\* C6: with a symmetric primitive kernel K, integrate_dense returns
\* out[I,J] = the sum over every primitive p of orbital I and q of orbital J of
\* c_p * c_q * K(p,q), each ordered primitive pair counted once, a diagonal
\* pair included, for I = J and for I # J.
C6_DenseIsContraction ==
    (pc \in {"overlap_basis", "kinetic_basis"} /\ kernel.skew = 0) =>
        \A e \in OrbitalPairs :
            out.val[e] = Contracted(kernel_table(kernel, SumSeq(orbital_prims)),
                                    e[1], e[2])

C6_Witness ==
    /\ pc = "overlap_basis"
    /\ kernel.skew = 0
    /\ orbital_prims = <<2, 1>>
    /\ coefficients = [p \in 0..2 |-> IF p = 1 THEN 2 ELSE 1]
    /\ \A e \in UnorderedPairs(3) : kernel.base[e] = 1
    /\ out.val[<<0, 0>>] = 9
    /\ out.val[<<0, 1>>] = 3
    /\ out.val[<<1, 1>>] = 1

\* The nuclear-attraction kernel of nucleus c as a function of the pair.
NucleusKernel(c) ==
    LET P == SumSeq(orbital_prims) IN
    [e \in (0..(P - 1)) \X (0..(P - 1)) |-> nuclear_primitives(kernel, e[1], e[2], c)]

\* C4 as claimed: nuclear_basis returns one num_orbitals x num_orbitals matrix
\* V, with V[I,J] the sum over the nuclei of atomic_number times the contracted
\* nuclear-attraction integral of that nucleus.
C4_SingleSummedMatrix ==
    pc = "nuclear_basis" =>
        /\ out.shape = <<num_orbitals, num_orbitals>>
        /\ \A e \in OrbitalPairs :
            out.val[e] =
                SumOver(DOMAIN structure,
                    [c \in DOMAIN structure |->
                        structure[c] *
                        Contracted(NucleusKernel(c), e[1], e[2])])

\* C4 as amended: nuclear_basis returns a stack with one num_orbitals x
\* num_orbitals matrix per nucleus, V[c,I,J] being that nucleus's atomic_number
\* times its contracted nuclear-attraction integral; the matrices are not
\* summed over the nuclei.
C4_StackPerNucleus ==
    pc = "nuclear_basis" =>
        /\ out.shape = <<Len(structure), num_orbitals, num_orbitals>>
        /\ DOMAIN out.val = DOMAIN structure
        /\ \A c \in DOMAIN structure : \A e \in OrbitalPairs :
            out.val[c][e] =
                structure[c] *
                Contracted(NucleusKernel(c), e[1], e[2])

C4_Witness ==
    /\ pc = "nuclear_basis"
    /\ structure = <<1, 2>>
    /\ num_orbitals = 2
    /\ out.shape = <<2, 2, 2>>
    /\ out.val[1] # out.val[2]
    /\ out.val[2][<<0, 1>>] > 0

(***************************************************************************)
(* The primitive kernels: _overlap_primitives (integrals.py:93-111),       *)
(* _kinetic_primitives (118-131) and g_term of _nuclear_primitives         *)
(* (138-172).                                                              *)
(*                                                                         *)
(* The kernels are evaluated over the integers: the shifts pa, pb are      *)
(* small integers, the exponents are such that 2 * p.alpha = 1 (line 100   *)
(* then divides by 1), and an overlap is given in units of its prefactor   *)
(* (pi / p.alpha)^1.5 * p.norm of line 109.                                *)
(***************************************************************************)
LMAX == 4

RECURSIVE factorial(_)
factorial(n) == IF n <= 1 THEN 1 ELSE n * factorial(n - 1)

\* factorial2(n): the double factorial, 1 for n <= 0 (2 * s - 1 at s = 0).
RECURSIVE factorial2(_)
factorial2(n) == IF n <= 1 THEN 1 ELSE n * factorial2(n - 2)

\* binom(n, k): the binomial coefficient, 0 when k < 0 or k > n.  Nothing
\* fixes what it returns for n < 0: that is the value of `junk`.
binom(n, k) ==
    IF n < 0 THEN junk
    ELSE IF k < 0 \/ k > n THEN 0
    ELSE factorial(n) \div (factorial(k) * factorial(n - k))

RECURSIVE pow(_, _)
pow(x, e) == IF e <= 0 THEN 1 ELSE x * pow(x, e - 1)

max0(x) == IF x > 0 THEN x ELSE 0

\* line 96: idx = [(s, t) for s in range(LMAX + 1) for t in range(2 * s + 1)]
overlap_idx == {e \in (0..LMAX) \X (0..(2 * LMAX)) : e[2] <= 2 * e[1]}

\* lines 98-100: a term before the mask.
overlap_out(i, j, x, y, e) ==
    LET s == e[1]  t == e[2] IN
    binom(i, 2 * s - t) * binom(j, t)
        * pow(x, max0(i - (2 * s - t))) * pow(y, max0(j - t))
        * factorial2(2 * s - 1)

overlap_mask_no_lower(i, j, e) == e[2] <= j

overlap_mask_no_upper(i, j, e) == 2 * e[1] - i <= e[2]

\* line 102: mask = (2 * s - i <= t) & (t <= j)
\* (s, t are uint32 and i, j signed: the comparisons are made as signed
\* integers, so a negative j is below every t.)
overlap_mask(i, j, e) == (2 * e[1] - i <= e[2]) /\ (e[2] <= j)

\* line 103: out = jnp.where(mask, out, 0)
overlap_where(i, j, x, y) ==
    [e \in overlap_idx |->
        IF overlap_mask(i, j, e) THEN overlap_out(i, j, x, y, e) ELSE 0]

\* line 104: jnp.sum(out)
overlap_axis(i, j, x, y) == SumOver(overlap_idx, overlap_where(i, j, x, y))

\* _overlap_primitives(a, b), lines 106-111: the product over the three axes.
overlap_primitives(alm, blm, pa, pb) ==
    overlap_axis(alm[1], blm[1], pa[1], pb[1])
        * overlap_axis(alm[2], blm[2], pa[2], pb[2])
        * overlap_axis(alm[3], blm[3], pa[3], pb[3])

\* offset_qn(ax, offset), lines 121-123: b with lmn[ax] moved by offset.
offset_qn(lmn, ax, off) == [lmn EXCEPT ![ax] = @ + off]

\* _kinetic_primitives(a, b), lines 119-131.  The value returned is
\* b.alpha * t0 - 2 * b.alpha^2 * t1 - 0.5 * t2; the record keeps the three
\* parts and the arrays they are summed from.
kinetic_primitives(alm, blm, pa, pb) ==
    LET s1 == [ax \in 1..3 |->
                overlap_primitives(alm, offset_qn(blm, ax, 2), pa, pb)]
        s2 == [ax \in 1..3 |->
                overlap_primitives(alm, offset_qn(blm, ax, -2), pa, pb)]
        w2 == [ax \in 1..3 |-> blm[ax] * (blm[ax] - 1) * s2[ax]]
    IN  [t0 |-> (2 * (blm[1] + blm[2] + blm[3]) + 3)
                    * overlap_primitives(alm, blm, pa, pb),
         s1 |-> s1,
         t1 |-> s1[1] + s1[2] + s1[3],
         s2 |-> s2,
         w2 |-> w2,
         t2 |-> w2[1] + w2[2] + w2[3]]

\* build_gindex(), lines 138-146.
gindex ==
    {e \in (0..LMAX) \X (0..LMAX) \X (0..LMAX) :
        /\ e[2] <= e[1] \div 2
        /\ e[3] <= (e[1] - 2 * e[2]) \div 2}

\* binom_factor(l1, l2, pa, pb, max_k): for k in 0..max_k the coefficient of
\* x^k in (x + pa)^l1 * (x + pb)^l2.
binom_factor(l1, l2, x, y, max_k) ==
    [k \in 0..max_k |->
        SumOver(0..k, [t \in 0..k |->
            binom(l1, k - t) * binom(l2, t)
                * pow(x, max0(l1 - (k - t))) * pow(y, max0(l2 - t))])]

\* line 162: index = i - 2 * r - u
g_index(e) == e[1] - 2 * e[2] - e[3]

\* line 171: the mask index <= l1 + l2
g_mask(l1, l2, e) == g_index(e) <= l1 + l2

\* lines 163-171: g after the mask.  A term is kept as the binom_factor
\* coefficient it carries; its other factors (the sign, the factorials, the
\* powers of cp and epsilon) do not depend on l1, l2.
g_where(l1, l2, x, y) ==
    [e \in gindex |->
        IF g_mask(l1, l2, e) THEN binom_factor(l1, l2, x, y, LMAX)[e[1]] ELSE 0]

\* line 172: segment_sum(g, index, num_segments=LMAX + 1), each segment kept
\* as its terms.
g_term(l1, l2, x, y) ==
    [n \in 0..LMAX |->
        LET T == {e \in gindex : g_index(e) = n} IN
        [e \in T |-> g_where(l1, l2, x, y)[e]]]

\* Primitives of total angular momentum at most LMAX.
Lmn == {l \in [1..3 -> 0..LMAX] : l[1] + l[2] + l[3] <= LMAX}
Shifts == {<<1, 1, 1>>, <<-1, 0, 1>>}
Junk == {-1, 2}

InitPrim ==
    /\ pc = "call"
    /\ prim_a \in [lmn : Lmn]
    /\ prim_b \in [lmn : Lmn]
    /\ shift \in [pa : Shifts, pb : Shifts]
    /\ junk \in Junk
    /\ ret = <<>>
    /\ num_orbitals = 0
    /\ orbital_prims = <<>>
    /\ IdleGenBatch
    /\ IdleDense

\* overlap_primitives(a, b); the masked terms of each axis are kept.
OverlapPrimitives ==
    /\ pc = "call"
    /\ ret' = [terms |-> [ax \in 1..3 |->
                    overlap_where(prim_a.lmn[ax], prim_b.lmn[ax],
                                  shift.pa[ax], shift.pb[ax])],
               value |-> overlap_primitives(prim_a.lmn, prim_b.lmn,
                                            shift.pa, shift.pb)]
    /\ pc' = "overlap_primitives"
    /\ UNCHANGED <<num_orbitals, genVars, batchVars, denseVars,
                   prim_a, prim_b, shift, junk>>

\* kinetic_primitives(a, b).
KineticPrimitives ==
    /\ pc = "call"
    /\ ret' = kinetic_primitives(prim_a.lmn, prim_b.lmn, shift.pa, shift.pb)
    /\ pc' = "kinetic_primitives"
    /\ UNCHANGED <<num_orbitals, genVars, batchVars, denseVars,
                   prim_a, prim_b, shift, junk>>

\* Gi, Gj, Gk = g_term(a.lmn, b.lmn, pa, pb, pc) of nuclear_primitives, line 174.
NuclearGTerm ==
    /\ pc = "call"
    /\ ret' = [ax \in 1..3 |->
                g_term(prim_a.lmn[ax], prim_b.lmn[ax], shift.pa[ax], shift.pb[ax])]
    /\ pc' = "g_term"
    /\ UNCHANGED <<num_orbitals, genVars, batchVars, denseVars,
                   prim_a, prim_b, shift, junk>>

NextPrim == OverlapPrimitives \/ KineticPrimitives \/ NuclearGTerm

SpecPrim == InitPrim /\ [][NextPrim]_vars

\* The index pairs of the overlap expansion of axis momenta i, j, looked for
\* well beyond the fixed enumeration.
ExactPairs(i, j) ==
    {e \in (0..(2 * LMAX + 2)) \X (0..(4 * LMAX + 4)) :
        /\ e[2] <= j
        /\ 0 <= 2 * e[1] - e[2]
        /\ 2 * e[1] - e[2] <= i}

Survivors(i, j) == {e \in overlap_idx : overlap_mask(i, j, e)}

\* C7: for axis momenta 0 <= i, j <= LMAX the pairs (s,t) that survive the
\* mask of overlap_axis are exactly those with 0 <= t <= j and
\* 0 <= 2s-t <= i (none of which lies outside the fixed enumeration), and
\* every other pair of the enumeration contributes exactly 0.
C7_OverlapMaskExact ==
    pc = "overlap_primitives" =>
        \A ax \in 1..3 :
            LET i == prim_a.lmn[ax]
                j == prim_b.lmn[ax]
            IN  /\ Survivors(i, j) = ExactPairs(i, j)
                /\ \A e \in overlap_idx \ ExactPairs(i, j) : ret.terms[ax][e] = 0
                /\ \A e \in overlap_idx :
                    ret.terms[ax][e] # 0 => e \in ExactPairs(i, j)

C7_Witness ==
    /\ pc = "overlap_primitives"
    /\ prim_a.lmn = <<LMAX, 0, 0>>
    /\ prim_b.lmn = <<LMAX, 0, 0>>
    /\ ret.terms[1][<<LMAX, LMAX>>] # 0
    /\ ret.terms[1][<<LMAX, LMAX + 1>>] = 0
    /\ ret.terms[2][<<1, 1>>] = 0
    /\ ret.value # 0

\* C8: in kinetic_primitives, on every axis where b.lmn is 0 or 1 the lowered
\* term contributes exactly 0 to t2: the weight lmn*(lmn-1) is 0, no pair
\* survives the overlap mask of the lowered axis, and the overlap evaluated on
\* the lowered primitive is itself 0 whatever binom returns for the negative
\* angular momentum.
C8_LoweredTermIsZero ==
    pc = "kinetic_primitives" =>
        \A ax \in 1..3 :
            prim_b.lmn[ax] \in {0, 1} =>
                /\ prim_b.lmn[ax] * (prim_b.lmn[ax] - 1) = 0
                /\ Survivors(prim_a.lmn[ax], prim_b.lmn[ax] - 2) = {}
                /\ ret.s2[ax] = 0
                /\ ret.w2[ax] = 0

C8_Witness ==
    /\ pc = "kinetic_primitives"
    /\ prim_a.lmn = <<1, 0, 2>>
    /\ prim_b.lmn = <<0, 1, 2>>
    /\ shift.pa = <<1, 1, 1>>
    /\ junk # 0
    /\ overlap_out(1, -2, 1, 1, <<0, 0>>) # 0
    /\ ret.s2[1] = 0
    /\ ret.s2[2] = 0
    /\ ret.s2[3] # 0
    /\ ret.t2 # 0

\* C10 as claimed: in kinetic_primitives, for axis momenta 0 <= i, j <= LMAX
\* the overlap on b raised by 2 sums every pair (s,t) with 0 <= t <= j+2 and
\* 0 <= 2s-t <= i: the fixed enumeration drops none of them.
C10_RaisedOverlapComplete ==
    pc = "kinetic_primitives" =>
        \A ax \in 1..3 :
            ExactPairs(prim_a.lmn[ax], prim_b.lmn[ax] + 2)
                \subseteq Survivors(prim_a.lmn[ax], prim_b.lmn[ax] + 2)

\* The triples (i, r, u) of the Hermite expansion of the nuclear-attraction
\* G for axis momenta l1, l2: i runs to l1 + l2.
ExactTriples(l1, l2) ==
    {e \in (0..(2 * LMAX)) \X (0..LMAX) \X (0..LMAX) :
        /\ e[1] <= l1 + l2
        /\ e[2] <= e[1] \div 2
        /\ e[3] <= (e[1] - 2 * e[2]) \div 2}

\* C9 as claimed: for axis momenta 0 <= l1, l2 <= LMAX, gindex holds every
\* triple (i,r,u) of the expansion with 0 <= i <= l1+l2, each such term lands
\* in a segment i-2r-u inside 0..LMAX, and the mask forces to zero only terms
\* with i > l1+l2.
C9_GindexComplete ==
    pc = "g_term" =>
        \A ax \in 1..3 :
            LET l1 == prim_a.lmn[ax]
                l2 == prim_b.lmn[ax]
            IN  /\ ExactTriples(l1, l2) \subseteq gindex
                /\ \A e \in ExactTriples(l1, l2) :
                    /\ g_index(e) \in 0..LMAX
                    /\ e \in DOMAIN ret[ax][g_index(e)]
                /\ \A e \in gindex : ~g_mask(l1, l2, e) => e[1] > l1 + l2

====
